---- MODULE Spec2Model ----
(***************************************************************************)
(* Postcondition checkers of salesforcedx-vscode-core: the composite chain, *)
(* the local-existence overwrite prompt and the two conflict checkers.      *)
(***************************************************************************)
EXTENDS Integers, Sequences, FiniteSets, TLC

VARIABLES
  \* OverwriteComponentPrompt.check / promptOverwrite
  existing,         \* components whose source file exists in the workspace
  oInputs,          \* argument of OverwriteComponentPrompt.check
  opc,              \* "idle" | "prompt" (suspended in showWarningModal) | "done"
  foundComponents,  \* argument of promptOverwrite
  i,                \* loop index of promptOverwrite (0-based, as in the source)
  skipped,          \* the Set accumulated by promptOverwrite
  promptLog,        \* modals shown so far: index, offered options, answer
  toSkip,           \* value returned by promptOverwrite
  oResult,          \* value returned by OverwriteComponentPrompt.check
  \* DeployQueue
  locked,           \* the deploy lock is held
  unlockCalls,      \* number of DeployQueue.get().unlock() calls so far
  \* one conflict checker called directly
  ckWho,            \* "ConflictDetection" | "Timestamp" | "Empty"
  ckInputs,         \* argument of check
  ckEnv,            \* what its collaborators answered
  ckOut,            \* value returned (or thrown) and the collaborator calls made
  \* CompositePostconditionChecker.check
  postcheckers,     \* constructor arguments: the kinds of the checkers, in order
  chArg,            \* argument of CompositePostconditionChecker.check
  chInputs,         \* the local variable inputs
  chpc,             \* "idle" | "loop" (suspended in postchecker.check) | "done"
  chk,              \* number of checkers invoked so far
  chLog,            \* invocations so far: checker index, kind, input, output
  chResult,         \* value returned (or thrown) by the composite
  \* OverwriteComponentPrompt.buildDialogMessage
  mFound,           \* argument foundComponents
  mIndex,           \* argument currentIndex (0-based)
  mMessage,         \* value returned
  \* AuthParamsGatherer.gather / AccessTokenParamsGatherer.gather
  gEnv,             \* the project's sfdcLoginUrl and the localized sandbox label
  gWho,             \* "Auth" | "AccessToken"
  gpc,              \* the prompt gather is suspended in, or "idle" | "done"
  gLocals,          \* local variables of gather assigned so far
  gLog,             \* prompts shown so far and their answers
  gResult           \* value returned by gather

ovars == <<existing, oInputs, opc, foundComponents, i, skipped, promptLog,
           toSkip, oResult>>

lvars == <<locked, unlockCalls>>
ckvars == <<ckWho, ckInputs, ckEnv, ckOut>>
chvars == <<postcheckers, chArg, chInputs, chpc, chk, chLog, chResult>>

mvars == <<mFound, mIndex, mMessage>>
gvars == <<gEnv, gWho, gpc, gLocals, gLog, gResult>>

vars == <<ovars, lvars, ckvars, chvars, mvars, gvars>>

----------------------------------------------------------------------------
\* Bounds

MaxComponents == 3
MaxList == 3

Components == 1..MaxComponents

\* sequences over S of length 0..n
RECURSIVE SeqsUpTo(_, _)
SeqsUpTo(S, n) ==
  IF n = 0 THEN {<<>>}
  ELSE LET shorter == SeqsUpTo(S, n - 1)
       IN shorter \cup {Append(s, x) : s \in {t \in shorter : Len(t) = n - 1}, x \in S}

Range(s) == {s[j] : j \in 1..Len(s)}

\* Array.prototype.filter
RECURSIVE Filter(_, _)
Filter(s, keep) ==
  IF s = <<>> THEN <<>>
  ELSE IF Head(s) \in keep THEN <<Head(s)>> \o Filter(Tail(s), keep)
       ELSE Filter(Tail(s), keep)

\* Array.prototype.slice(from), from 0-based
Slice(s, from) == SubSeq(s, from + 1, Len(s))

----------------------------------------------------------------------------
\* CheckResult values

Undefined == "undefined"
Messages == {"conflict_detect_no_default_username", "other_message"}

\* { type: 'CANCEL' } has no msg property: msg reads as undefined
Cancel == [type |-> "CANCEL", msg |-> Undefined]
CancelMsg(m) == [type |-> "CANCEL", msg |-> m]
Continue(d) == [type |-> "CONTINUE", data |-> d]

CancelResponses == {CancelMsg(m) : m \in Messages \cup {Undefined}}

\* OneOrMany: a single LocalComponent or an array of them
One(c) == [isArray |-> FALSE, items |-> <<c>>]
Many(s) == [isArray |-> TRUE, items |-> s]
\* the members of an array are distinct LocalComponent objects
Distinct(s) == \A j, m \in 1..Len(s) : s[j] = s[m] => j = m
OneOrMany == {One(c) : c \in Components}
             \cup {Many(s) : s \in {t \in SeqsUpTo(Components, MaxList) : Distinct(t)}}

NotRun == [type |-> "NOT_RUN"]

----------------------------------------------------------------------------
\* OverwriteComponentPrompt

\* a label is nls.localize(text), followed by ` (${n})` when count is <<n>>
Label(text, count) == [text |-> text, count |-> count]
L_overwrite == Label("warning_prompt_overwrite", <<>>)
L_skip == Label("warning_prompt_skip", <<>>)
L_overwrite_all(n) == Label("warning_prompt_overwrite_all", <<n>>)
L_skip_all(n) == Label("warning_prompt_skip_all", <<n>>)
\* showWarningModal resolves to undefined when the modal is dismissed
Dismissed == Label(Undefined, <<>>)

\* componentExists answering true for every component
componentExists_Always(c) == c \in Components

\* OverwriteComponentPrompt.componentExists: some candidate path exists on disk
componentExists(c) == c \in existing

\* buildDialogOptions counting only the items after the current one
buildDialogOptions_CountsFollowing(found, skip, currentIndex) ==
  LET numOfExistingFiles == Len(found)
      othersCount == numOfExistingFiles - currentIndex - 1
  IN <<L_overwrite>>
     \o (IF Cardinality(skip) > 0 \/ Cardinality(skip) # numOfExistingFiles - 1
         THEN <<L_skip>> ELSE <<>>)
     \o (IF currentIndex < numOfExistingFiles - 1
         THEN <<L_overwrite_all(othersCount), L_skip_all(othersCount)>> ELSE <<>>)

\* buildDialogOptions without the skipped.size > 0 disjunct
buildDialogOptions_SkipUnlessAllButOne(found, skip, currentIndex) ==
  LET numOfExistingFiles == Len(found)
      othersCount == numOfExistingFiles - currentIndex
  IN <<L_overwrite>>
     \o (IF Cardinality(skip) # numOfExistingFiles - 1
         THEN <<L_skip>> ELSE <<>>)
     \o (IF currentIndex < numOfExistingFiles - 1
         THEN <<L_overwrite_all(othersCount), L_skip_all(othersCount)>> ELSE <<>>)

buildDialogOptions(found, skip, currentIndex) ==
  LET numOfExistingFiles == Len(found)
      othersCount == numOfExistingFiles - currentIndex
  IN <<L_overwrite>>
     \o (IF Cardinality(skip) > 0 \/ Cardinality(skip) # numOfExistingFiles - 1
         THEN <<L_skip>> ELSE <<>>)
     \o (IF currentIndex < numOfExistingFiles - 1
         THEN <<L_overwrite_all(othersCount), L_skip_all(othersCount)>> ELSE <<>>)

NoDecision == [defined |-> FALSE, set |-> {}]
Decision(S) == [defined |-> TRUE, set |-> S]

\* AfterPrompt without the comparison of toSkip.size
AfterPrompt_NoSizeCheck(inputs, ts) ==
  LET data == inputs.data
      componentsToCheck == data.items
  IN IF ~ts.defined
     THEN Cancel
     ELSE IF data.isArray
          THEN Continue(Many(Filter(componentsToCheck, Components \ ts.set)))
          ELSE inputs

\* AfterPrompt with the filter's predicate inverted
AfterPrompt_KeepsSkipped(inputs, ts) ==
  LET data == inputs.data
      componentsToCheck == data.items
  IN IF ~ts.defined \/ Cardinality(ts.set) = Len(componentsToCheck)
     THEN Cancel
     ELSE IF data.isArray
          THEN Continue(Many(Filter(componentsToCheck, ts.set)))
          ELSE inputs

\* the rest of check after promptOverwrite has returned ts (lines 80-90)
AfterPrompt(inputs, ts) ==
  LET data == inputs.data
      componentsToCheck == data.items
  IN IF ~ts.defined \/ Cardinality(ts.set) = Len(componentsToCheck)
     THEN Cancel
     ELSE IF data.isArray
          THEN Continue(Many(Filter(componentsToCheck, Components \ ts.set)))
          ELSE inputs

\* promptOverwrite returns ts; check resumes and returns
PromptReturns(ts) ==
  /\ toSkip' = ts
  /\ oResult' = AfterPrompt(oInputs, ts)
  /\ opc' = "done"
  /\ UNCHANGED i

\* OverwriteComponentPrompt.check up to its first suspension
OverwriteCheck(inputs) ==
  /\ opc = "idle"
  /\ oInputs' = inputs
  /\ IF inputs.type = "CONTINUE"
     THEN LET found == Filter(inputs.data.items, {c \in Components : componentExists(c)})
          IN IF Len(found) > 0
             THEN /\ foundComponents' = found
                  /\ opc' = "prompt"
                  /\ oResult' = oResult
             ELSE /\ foundComponents' = foundComponents
                  /\ opc' = "done"
                  /\ oResult' = inputs
     ELSE /\ foundComponents' = foundComponents
          /\ opc' = "done"
          /\ oResult' = Cancel
  /\ UNCHANGED <<existing, i, skipped, promptLog, toSkip>>
  /\ UNCHANGED <<lvars, ckvars, chvars, mvars, gvars>>

----------------------------------------------------------------------------
\* OverwriteComponentPrompt.buildDialogMessage

MaxFound == 13

\* the loop stops listing at j === currentIndex + 11
TruncateAt == 11

\* `${type}:${fileName}\n` of a component, and the localized summary line
EntryLine(c) == [text |-> "type:fileName", arg |-> c]
OtherNotShown(n) == [text |-> "warning_prompt_other_not_shown", arg |-> n]

\* the for loop of buildDialogMessage (lines 168-177), from j on
RECURSIVE MessageBody(_, _, _)
MessageBody(found, currentIndex, j) ==
  IF j >= Len(found) THEN <<>>
  ELSE IF j = currentIndex + TruncateAt
       THEN <<OtherNotShown(Len(found) - currentIndex - TruncateAt)>>
       ELSE <<EntryLine(found[j + 1])>> \o MessageBody(found, currentIndex, j + 1)

\* buildDialogMessage listing every following component
buildDialogMessage_ListsAll(found, currentIndex) ==
  LET existingLength == Len(found)
      otherFilesCount == existingLength - currentIndex - 1
  IN [current |-> found[currentIndex + 1],
      otherExisting |-> IF otherFilesCount > 0 THEN <<otherFilesCount>> ELSE <<>>,
      body |-> [j \in 1..otherFilesCount |-> EntryLine(found[currentIndex + 1 + j])]]

\* the arguments of nls.localize('warning_prompt_overwrite_message', ...):
\* the current component, the count given to warning_prompt_other_existing
\* (none when there is no other file) and the lines of the body
buildDialogMessage(found, currentIndex) ==
  LET existingLength == Len(found)
      otherFilesCount == existingLength - currentIndex - 1
  IN [current |-> found[currentIndex + 1],
      otherExisting |-> IF otherFilesCount > 0 THEN <<otherFilesCount>> ELSE <<>>,
      body |-> MessageBody(found, currentIndex, currentIndex + 1)]

\* buildDialogMessage is called with a list and an index of it
MessageBuilt ==
  /\ mMessage = NotRun
  /\ mMessage' = buildDialogMessage(mFound, mIndex)
  /\ UNCHANGED <<mFound, mIndex>>
  /\ UNCHANGED <<ovars, lvars, ckvars, chvars, gvars>>

\* SwitchChoice whose default case returns the skip set
SwitchChoice_DefaultReturnsSkipped(choice, found, skip, idx) ==
  LET othersCount == Len(found) - idx
  IN IF choice = L_overwrite
     THEN [returns |-> FALSE, skipped |-> skip, value |-> NoDecision]
     ELSE IF choice = L_skip
     THEN [returns |-> FALSE, skipped |-> skip \cup {found[idx + 1]}, value |-> NoDecision]
     ELSE IF choice = L_overwrite_all(othersCount)
     THEN [returns |-> TRUE, skipped |-> skip, value |-> Decision(skip)]
     ELSE IF choice = L_skip_all(othersCount)
     THEN [returns |-> TRUE, skipped |-> skip, value |-> Decision(Range(Slice(found, idx)))]
     ELSE [returns |-> TRUE, skipped |-> skip, value |-> Decision(skip)]

\* SwitchChoice whose skip-all case slices from the next index
SwitchChoice_SkipAllFromNext(choice, found, skip, idx) ==
  LET othersCount == Len(found) - idx
  IN IF choice = L_overwrite
     THEN [returns |-> FALSE, skipped |-> skip, value |-> NoDecision]
     ELSE IF choice = L_skip
     THEN [returns |-> FALSE, skipped |-> skip \cup {found[idx + 1]}, value |-> NoDecision]
     ELSE IF choice = L_overwrite_all(othersCount)
     THEN [returns |-> TRUE, skipped |-> skip, value |-> Decision(skip)]
     ELSE IF choice = L_skip_all(othersCount)
     THEN [returns |-> TRUE, skipped |-> skip, value |-> Decision(Range(Slice(found, idx + 1)))]
     ELSE [returns |-> TRUE, skipped |-> skip, value |-> NoDecision]

\* SwitchChoice whose overwrite-all case returns a new empty Set
SwitchChoice_OverwriteAllReturnsEmpty(choice, found, skip, idx) ==
  LET othersCount == Len(found) - idx
  IN IF choice = L_overwrite
     THEN [returns |-> FALSE, skipped |-> skip, value |-> NoDecision]
     ELSE IF choice = L_skip
     THEN [returns |-> FALSE, skipped |-> skip \cup {found[idx + 1]}, value |-> NoDecision]
     ELSE IF choice = L_overwrite_all(othersCount)
     THEN [returns |-> TRUE, skipped |-> skip, value |-> Decision({})]
     ELSE IF choice = L_skip_all(othersCount)
     THEN [returns |-> TRUE, skipped |-> skip, value |-> Decision(Range(Slice(found, idx)))]
     ELSE [returns |-> TRUE, skipped |-> skip, value |-> NoDecision]

\* the switch on the modal's answer (lines 143-156): whether promptOverwrite
\* returns now, the value it returns, and the skip set after the case
SwitchChoice(choice, found, skip, idx) ==
  LET othersCount == Len(found) - idx
  IN IF choice = L_overwrite
     THEN [returns |-> FALSE, skipped |-> skip, value |-> NoDecision]
     ELSE IF choice = L_skip
     THEN [returns |-> FALSE, skipped |-> skip \cup {found[idx + 1]}, value |-> NoDecision]
     ELSE IF choice = L_overwrite_all(othersCount)
     THEN [returns |-> TRUE, skipped |-> skip, value |-> Decision(skip)]
     ELSE IF choice = L_skip_all(othersCount)
     THEN [returns |-> TRUE, skipped |-> skip, value |-> Decision(Range(Slice(found, idx)))]
     ELSE [returns |-> TRUE, skipped |-> skip, value |-> NoDecision]

\* one turn of the promptOverwrite loop: the modal at index i is answered
PromptAnswered(choice) ==
  /\ opc = "prompt"
  /\ LET options == buildDialogOptions(foundComponents, skipped, i)
         sw == SwitchChoice(choice, foundComponents, skipped, i)
     IN /\ choice \in Range(options) \cup {Dismissed}
        /\ promptLog' = Append(promptLog, [index |-> i,
                                          message |-> buildDialogMessage(foundComponents, i),
                                          options |-> options, choice |-> choice])
        /\ skipped' = sw.skipped
        /\ IF sw.returns
           THEN PromptReturns(sw.value)
           ELSE IF i + 1 < Len(foundComponents)
                THEN /\ i' = i + 1
                     /\ UNCHANGED <<opc, toSkip, oResult>>
                ELSE PromptReturns(Decision(sw.skipped))
  /\ UNCHANGED <<existing, oInputs, foundComponents>>
  /\ UNCHANGED <<lvars, ckvars, chvars, mvars, gvars>>

----------------------------------------------------------------------------
\* AuthParamsGatherer and AccessTokenParamsGatherer

DEFAULT_ALIAS == "vscodeOrg"
PRODUCTION_URL == "https://login.salesforce.com"
SANDBOX_URL == "https://test.salesforce.com"

\* texts a user may type into an input box
UrlTexts == {"https://na35.salesforce.com", "http://localhost:6109",
             "na35.salesforce.com", ""}
AliasTexts == {"myOrg", ""}
TokenTexts == {"00Dxx0000000000!token", ""}

\* the texts of UrlTexts on which /https?:\/\/(.*)/.test(url) is true
MatchesHttp == {"https://na35.salesforce.com", "http://localhost:6109"}

Null == "null"

\* AuthParamsGatherer.validateUrl
validateUrl(url) == IF url \in MatchesHttp THEN Null ELSE "auth_invalid_url"

\* validateInput of inputAccessToken
validateAccessToken(text) ==
  IF text # "" /\ Len(text) > 0 THEN Null ELSE "Enter a valid access token"

\* vscode.window.showInputBox resolves to undefined when dismissed and
\* otherwise to a text its validateInput (if any) accepts
InputBoxAnswers(texts, accepted) == {Undefined} \cup {t \in texts : accepted[t] = Null}

UrlAnswers == InputBoxAnswers(UrlTexts, [t \in UrlTexts |-> validateUrl(t)])
AliasAnswers == InputBoxAnswers(AliasTexts, [t \in AliasTexts |-> Null])
TokenAnswers == InputBoxAnswers(TokenTexts, [t \in TokenTexts |-> validateAccessToken(t)])

\* a || b on strings: undefined and '' are falsy
OrElse(a, b) == IF a = Undefined \/ a = "" THEN b ELSE a

\* the project's sfdcLoginUrl, and what nls.localize('auth_sandbox_label') is
\* in the user's language
GEnvs == [projectUrl : {Undefined, "https://project.my.salesforce.com"},
          sandboxLabel : {"Sandbox", "auth_sandbox_label (localized)"}]

\* OrgTypeItem.label
OrgLabel(key) == IF key = "auth_sandbox_label" THEN gEnv.sandboxLabel ELSE key
orgTypes == [project |-> "auth_project_label", production |-> "auth_prod_label",
             sandbox |-> "auth_sandbox_label", custom |-> "auth_custom_label"]

\* AuthParamsGatherer.getQuickPickItems (labels of the items, in order)
getQuickPickItems ==
  LET items == <<OrgLabel(orgTypes.production), OrgLabel(orgTypes.sandbox),
                 OrgLabel(orgTypes.custom)>>
  IN IF OrElse(gEnv.projectUrl, "") # ""
     THEN <<OrgLabel(orgTypes.project)>> \o items
     ELSE items

Asked(prompt, answer) == [prompt |-> prompt, answer |-> answer]
NoLocals == [loginUrl |-> Undefined, instanceUrl |-> Undefined, alias |-> Undefined]

GatherReturns(res) ==
  /\ gpc' = "done"
  /\ gResult' = res

\* gather is called: it runs to its first prompt
GatherCalled(who) ==
  /\ gWho = "none"
  /\ gWho' = who
  /\ gpc' = IF who = "Auth" THEN "showQuickPick" ELSE "inputInstanceUrl"
  /\ gLocals' = NoLocals
  /\ UNCHANGED <<gEnv, gLog, gResult>>
  /\ UNCHANGED <<ovars, lvars, ckvars, chvars, mvars>>

\* AuthParamsGatherer.gather resumes from showQuickPick (lines 114-135)
QuickPickAnswered(selection) ==
  /\ gpc = "showQuickPick"
  /\ selection \in Range(getQuickPickItems) \cup {Undefined}
  /\ gLog' = Append(gLog, Asked("showQuickPick", selection))
  /\ IF selection = Undefined
     THEN GatherReturns(Cancel) /\ UNCHANGED gLocals
     ELSE LET orgType == selection
          IN IF orgType = OrgLabel(orgTypes.custom)
             THEN /\ gpc' = "parameter_gatherer_enter_custom_url"
                  /\ UNCHANGED <<gLocals, gResult>>
             ELSE /\ gpc' = "parameter_gatherer_enter_alias_name"
                  /\ gLocals' = [gLocals EXCEPT !.loginUrl =
                                   IF orgType = OrgLabel(orgTypes.project)
                                   THEN gEnv.projectUrl
                                   ELSE IF orgType = "Sandbox" THEN SANDBOX_URL
                                        ELSE PRODUCTION_URL]
                  /\ UNCHANGED gResult
  /\ UNCHANGED <<gEnv, gWho>>
  /\ UNCHANGED <<ovars, lvars, ckvars, chvars, mvars>>

\* AuthParamsGatherer.gather resumes from the custom URL input box (lines 127-130)
CustomUrlAnswered(loginUrl) ==
  /\ gpc = "parameter_gatherer_enter_custom_url"
  /\ loginUrl \in UrlAnswers
  /\ gLog' = Append(gLog, Asked("parameter_gatherer_enter_custom_url", loginUrl))
  /\ IF loginUrl = Undefined
     THEN GatherReturns(Cancel) /\ UNCHANGED gLocals
     ELSE /\ gpc' = "parameter_gatherer_enter_alias_name"
          /\ gLocals' = [gLocals EXCEPT !.loginUrl = loginUrl]
          /\ UNCHANGED gResult
  /\ UNCHANGED <<gEnv, gWho>>
  /\ UNCHANGED <<ovars, lvars, ckvars, chvars, mvars>>

\* AccessTokenParamsGatherer.gather resumes from inputInstanceUrl (lines 161-166)
InstanceUrlAnswered(instanceUrl) ==
  /\ gpc = "inputInstanceUrl"
  /\ instanceUrl \in UrlAnswers
  /\ gLog' = Append(gLog, Asked("parameter_gatherer_enter_instance_url", instanceUrl))
  /\ IF instanceUrl = Undefined
     THEN GatherReturns(Cancel) /\ UNCHANGED gLocals
     ELSE /\ gpc' = "inputAlias"
          /\ gLocals' = [gLocals EXCEPT !.instanceUrl = instanceUrl]
          /\ UNCHANGED gResult
  /\ UNCHANGED <<gEnv, gWho>>
  /\ UNCHANGED <<ovars, lvars, ckvars, chvars, mvars>>

\* the return statement of AuthParamsGatherer.gather (lines 146-152)
AuthContinue(alias, loginUrl) ==
  Continue([alias |-> OrElse(alias, DEFAULT_ALIAS),
            loginUrl |-> OrElse(loginUrl, PRODUCTION_URL)])

\* the alias input box is answered: AuthParamsGatherer.gather returns (lines
\* 141-152); AccessTokenParamsGatherer.gather goes on to inputAccessToken
\* (lines 166-171)
AliasAnswered(alias) ==
  /\ gpc \in {"parameter_gatherer_enter_alias_name", "inputAlias"}
  /\ alias \in AliasAnswers
  /\ gLog' = Append(gLog, Asked("parameter_gatherer_enter_alias_name", alias))
  /\ IF alias = Undefined
     THEN GatherReturns(Cancel) /\ UNCHANGED gLocals
     ELSE IF gWho = "Auth"
     THEN GatherReturns(AuthContinue(alias, gLocals.loginUrl)) /\ UNCHANGED gLocals
     ELSE /\ gpc' = "inputAccessToken"
          /\ gLocals' = [gLocals EXCEPT !.alias = alias]
          /\ UNCHANGED gResult
  /\ UNCHANGED <<gEnv, gWho>>
  /\ UNCHANGED <<ovars, lvars, ckvars, chvars, mvars>>

\* the return statement of AccessTokenParamsGatherer.gather with the values
\* in the wrong properties
AccessTokenContinue_Swapped(accessToken, alias, instanceUrl) ==
  Continue([accessToken |-> accessToken, alias |-> instanceUrl, instanceUrl |-> alias])

\* the return statement of AccessTokenParamsGatherer.gather (lines 175-182)
AccessTokenContinue(accessToken, alias, instanceUrl) ==
  Continue([accessToken |-> accessToken, alias |-> alias, instanceUrl |-> instanceUrl])

\* AccessTokenParamsGatherer.gather resumes from inputAccessToken (lines 171-182)
AccessTokenAnswered(accessToken) ==
  /\ gpc = "inputAccessToken"
  /\ accessToken \in TokenAnswers
  /\ gLog' = Append(gLog, Asked("Enter access token", accessToken))
  /\ IF accessToken = Undefined
     THEN GatherReturns(Cancel)
     ELSE GatherReturns(AccessTokenContinue(accessToken, gLocals.alias, gLocals.instanceUrl))
  /\ UNCHANGED <<gEnv, gWho, gLocals>>
  /\ UNCHANGED <<ovars, lvars, ckvars, chvars, mvars>>

----------------------------------------------------------------------------
\* ConflictDetectionChecker and TimestampConflictChecker

MaxDiffs == 2

Payloads == {"manifest/package.xml", "force-app/main"}
Thrown == [type |-> "THROWN"]

Call(name, args) == [call |-> name, args |-> args]
E_showChannelOutput == Call("channelService.showChannelOutput", <<>>)
E_showCommandWithTimestamp(key) == Call("channelService.showCommandWithTimestamp", <<key>>)
E_appendLine(key) == Call("channelService.appendLine", <<key>>)
E_checkForConflicts == Call("conflictDetector.checkForConflicts", <<>>)
E_loadCache == Call("cacheService.loadCache", <<>>)
E_createDiffs == Call("detector.createDiffs", <<>>)
E_showWarningModal(options) == Call("notificationService.showWarningModal", options)
E_visualizeDifferences(reveal, results) ==
  Call("conflictView.visualizeDifferences",
       <<IF reveal THEN "true" ELSE "false">> \o (IF results THEN <<"results">> ELSE <<>>))
E_consoleError == Call("console.error", <<>>)
E_sendException == Call("telemetryService.sendException", <<"ConflictDetectionException">>)
E_unlock == Call("DeployQueue.unlock", <<>>)

Override == "conflict_detect_override"
ShowConflicts == "conflict_detect_show_conflicts"

\* what the collaborators of one check answer: the setting, the workspace
\* username, the collaborator that throws (if any), different.size and the
\* answer to the modal
FailPoints == {"none", "checkForConflicts", "loadCache", "createDiffs",
               "showWarningModal", "visualizeDifferences", "unlock"}
Envs == [enabled : BOOLEAN,
         username : {Undefined, "user@example.com"},
         fail : FailPoints,
         different : 0..MaxDiffs,
         choice : {Override, ShowConflicts, Undefined}]

\* outcome of a piece of code: whether it threw, the value it returned, the
\* collaborator calls it made
Returned(res, events) == [thrown |-> FALSE, res |-> res, events |-> events]
Threw(events) == [thrown |-> TRUE, res |-> Thrown, events |-> events]

\* results.different.forEach(file => channelService.appendLine(...))
FileLines(n) == [j \in 1..n |-> E_appendLine("localRelPath")]

\* CdHandleConflicts cancelling only on 'Show conflicts' (a dismissal overrides)
CdHandleConflicts_DismissalOverrides(manifest, env) ==
  IF env.different = 0
  THEN IF env.fail = "visualizeDifferences"
       THEN Threw(<<E_visualizeDifferences(FALSE, FALSE)>>)
       ELSE Returned(Continue(manifest), <<E_visualizeDifferences(FALSE, FALSE)>>)
  ELSE LET listed == <<E_appendLine("conflict_detect_conflict_header")>>
                     \o FileLines(env.different)
                     \o <<E_showChannelOutput, E_showWarningModal(<<Override, ShowConflicts>>)>>
       IN IF env.fail = "showWarningModal"
          THEN Threw(listed)
          ELSE IF env.choice # ShowConflicts
          THEN LET ev == listed \o <<E_visualizeDifferences(FALSE, FALSE)>>
               IN IF env.fail = "visualizeDifferences"
                  THEN Threw(ev)
                  ELSE Returned(Continue(manifest), ev)
          ELSE LET doReveal == (env.choice = ShowConflicts)
                   ev == listed \o <<E_appendLine("conflict_detect_command_hint"),
                                     E_showChannelOutput,
                                     E_visualizeDifferences(doReveal, TRUE)>>
               IN IF env.fail = "visualizeDifferences"
                  THEN Threw(ev)
                  ELSE Returned(Cancel, ev)

\* CdHandleConflicts revealing the conflict view whatever the answer
CdHandleConflicts_AlwaysReveals(manifest, env) ==
  IF env.different = 0
  THEN IF env.fail = "visualizeDifferences"
       THEN Threw(<<E_visualizeDifferences(FALSE, FALSE)>>)
       ELSE Returned(Continue(manifest), <<E_visualizeDifferences(FALSE, FALSE)>>)
  ELSE LET listed == <<E_appendLine("conflict_detect_conflict_header")>>
                     \o FileLines(env.different)
                     \o <<E_showChannelOutput, E_showWarningModal(<<Override, ShowConflicts>>)>>
       IN IF env.fail = "showWarningModal"
          THEN Threw(listed)
          ELSE IF env.choice = Override
          THEN LET ev == listed \o <<E_visualizeDifferences(FALSE, FALSE)>>
               IN IF env.fail = "visualizeDifferences"
                  THEN Threw(ev)
                  ELSE Returned(Continue(manifest), ev)
          ELSE LET ev == listed \o <<E_appendLine("conflict_detect_command_hint"),
                                     E_showChannelOutput,
                                     E_visualizeDifferences(TRUE, TRUE)>>
               IN IF env.fail = "visualizeDifferences"
                  THEN Threw(ev)
                  ELSE Returned(Cancel, ev)

\* CdHandleConflicts revealing the conflict view when nothing differs
CdHandleConflicts_RevealsEmpty(manifest, env) ==
  IF env.different = 0
  THEN IF env.fail = "visualizeDifferences"
       THEN Threw(<<E_visualizeDifferences(TRUE, FALSE)>>)
       ELSE Returned(Continue(manifest), <<E_visualizeDifferences(TRUE, FALSE)>>)
  ELSE LET listed == <<E_appendLine("conflict_detect_conflict_header")>>
                     \o FileLines(env.different)
                     \o <<E_showChannelOutput, E_showWarningModal(<<Override, ShowConflicts>>)>>
       IN IF env.fail = "showWarningModal"
          THEN Threw(listed)
          ELSE IF env.choice = Override
          THEN LET ev == listed \o <<E_visualizeDifferences(FALSE, FALSE)>>
               IN IF env.fail = "visualizeDifferences"
                  THEN Threw(ev)
                  ELSE Returned(Continue(manifest), ev)
          ELSE LET doReveal == (env.choice = ShowConflicts)
                   ev == listed \o <<E_appendLine("conflict_detect_command_hint"),
                                     E_showChannelOutput,
                                     E_visualizeDifferences(doReveal, TRUE)>>
               IN IF env.fail = "visualizeDifferences"
                  THEN Threw(ev)
                  ELSE Returned(Cancel, ev)

\* CdHandleConflicts releasing the deploy lock before it cancels
CdHandleConflicts_Unlocks(manifest, env) ==
  IF env.different = 0
  THEN IF env.fail = "visualizeDifferences"
       THEN Threw(<<E_visualizeDifferences(FALSE, FALSE)>>)
       ELSE Returned(Continue(manifest), <<E_visualizeDifferences(FALSE, FALSE)>>)
  ELSE LET listed == <<E_appendLine("conflict_detect_conflict_header")>>
                     \o FileLines(env.different)
                     \o <<E_showChannelOutput, E_showWarningModal(<<Override, ShowConflicts>>)>>
       IN IF env.fail = "showWarningModal"
          THEN Threw(listed)
          ELSE IF env.choice = Override
          THEN LET ev == listed \o <<E_visualizeDifferences(FALSE, FALSE)>>
               IN IF env.fail = "visualizeDifferences"
                  THEN Threw(ev)
                  ELSE Returned(Continue(manifest), ev)
          ELSE LET doReveal == (env.choice = ShowConflicts)
                   ev == listed \o <<E_appendLine("conflict_detect_command_hint"),
                                     E_showChannelOutput,
                                     E_visualizeDifferences(doReveal, TRUE)>>
               IN IF env.fail = "visualizeDifferences"
                  THEN Threw(ev)
                  ELSE Returned(Cancel, ev \o <<E_unlock>>)

\* ConflictDetectionChecker.handleConflicts
CdHandleConflicts(manifest, env) ==
  IF env.different = 0
  THEN IF env.fail = "visualizeDifferences"
       THEN Threw(<<E_visualizeDifferences(FALSE, FALSE)>>)
       ELSE Returned(Continue(manifest), <<E_visualizeDifferences(FALSE, FALSE)>>)
  ELSE LET listed == <<E_appendLine("conflict_detect_conflict_header")>>
                     \o FileLines(env.different)
                     \o <<E_showChannelOutput, E_showWarningModal(<<Override, ShowConflicts>>)>>
       IN IF env.fail = "showWarningModal"
          THEN Threw(listed)
          ELSE IF env.choice = Override
          THEN LET ev == listed \o <<E_visualizeDifferences(FALSE, FALSE)>>
               IN IF env.fail = "visualizeDifferences"
                  THEN Threw(ev)
                  ELSE Returned(Continue(manifest), ev)
          ELSE LET doReveal == (env.choice = ShowConflicts)
                   ev == listed \o <<E_appendLine("conflict_detect_command_hint"),
                                     E_showChannelOutput,
                                     E_visualizeDifferences(doReveal, TRUE)>>
               IN IF env.fail = "visualizeDifferences"
                  THEN Threw(ev)
                  ELSE Returned(Cancel, ev)

\* ConflictDetectionCheck testing inputs.type before the setting
ConflictDetectionCheck_TypeFirst(inputs, env) ==
  IF inputs.type # "CONTINUE"
  THEN Returned(Cancel, <<>>)
  ELSE IF ~env.enabled
  THEN Returned(inputs, <<>>)
  ELSE IF env.username = Undefined
  THEN Returned(CancelMsg("conflict_detect_no_default_username"), <<>>)
  ELSE IF env.fail = "checkForConflicts"
  THEN Threw(<<E_checkForConflicts>>)
  ELSE LET h == CdHandleConflicts(inputs.data, env)
       IN [h EXCEPT !.events = <<E_checkForConflicts>> \o @]

\* ConflictDetectionChecker.check
ConflictDetectionCheck(inputs, env) ==
  IF ~env.enabled
  THEN Returned(inputs, <<>>)
  ELSE IF inputs.type = "CONTINUE"
  THEN IF env.username = Undefined
       THEN Returned(CancelMsg("conflict_detect_no_default_username"), <<>>)
       ELSE IF env.fail = "checkForConflicts"
       THEN Threw(<<E_checkForConflicts>>)
       ELSE LET h == CdHandleConflicts(inputs.data, env)
            IN [h EXCEPT !.events = <<E_checkForConflicts>> \o @]
  ELSE Returned(Cancel, <<>>)

\* TimestampConflictChecker.handleConflicts
TsHandleConflicts(componentPath, env) ==
  IF env.different = 0
  THEN IF env.fail = "visualizeDifferences"
       THEN Threw(<<E_visualizeDifferences(FALSE, FALSE)>>)
       ELSE Returned(Continue(componentPath), <<E_visualizeDifferences(FALSE, FALSE)>>)
  ELSE LET listed == <<E_appendLine("conflict_detect_conflict_header_timestamp")>>
                     \o FileLines(env.different)
                     \o <<E_showWarningModal(<<ShowConflicts, Override>>)>>
       IN IF env.fail = "showWarningModal"
          THEN Threw(listed)
          ELSE IF env.choice = Override
          THEN LET ev == listed \o <<E_visualizeDifferences(FALSE, FALSE)>>
               IN IF env.fail = "visualizeDifferences"
                  THEN Threw(ev)
                  ELSE Returned(Continue(componentPath), ev)
          ELSE LET doReveal == (env.choice = ShowConflicts)
                   ev == listed \o <<E_appendLine("conflict_detect_command_hint"),
                                     E_visualizeDifferences(doReveal, TRUE)>>
               IN IF env.fail = "visualizeDifferences"
                  THEN Threw(ev)
                  ELSE IF env.fail = "unlock"
                  THEN Threw(ev \o <<E_unlock>>)
                  ELSE Returned(Cancel, ev \o <<E_unlock>>)

\* the try block of TimestampConflictChecker.check (lines 350-363)
TsTry(inputs, env) ==
  IF env.fail = "loadCache"
  THEN Threw(<<E_loadCache>>)
  ELSE IF env.fail = "createDiffs"
  THEN Threw(<<E_loadCache, E_createDiffs>>)
  ELSE LET h == TsHandleConflicts(inputs.data, env)
       IN [h EXCEPT !.events = <<E_loadCache, E_createDiffs,
                                 E_showCommandWithTimestamp("channel_end")>> \o @]

\* TsCatch without the call of unlock
TsCatch_NoUnlock(events) ==
  Returned(Cancel,
           events \o <<E_consoleError, E_appendLine("conflict_detect_error"),
                       E_sendException>>)

\* the catch block (lines 364-373); control then reaches line 375
TsCatch(events) ==
  Returned(Cancel,
           events \o <<E_consoleError, E_appendLine("conflict_detect_error"),
                       E_sendException, E_unlock>>)

\* the catch block entered with the calls made so far; when its own await of
\* unlock() rejects, check is left by that exception
TsCaught(events, env) ==
  LET c == TsCatch(events)
  IN IF env.fail = "unlock" /\ c.events[Len(c.events)] = E_unlock
     THEN Threw(c.events)
     ELSE c

\* TimestampCheck without the test of workspaceContext.username
TimestampCheck_NoUsernameTest(inputs, env) ==
  IF ~env.enabled
  THEN Returned(inputs, <<>>)
  ELSE IF inputs.type = "CONTINUE"
  THEN LET started == <<E_showChannelOutput,
                        E_showCommandWithTimestamp("channel_starting_message")>>
           t == TsTry(inputs, env)
       IN IF t.thrown
          THEN TsCaught(started \o t.events, env)
          ELSE [t EXCEPT !.events = started \o @]
  ELSE Returned(Cancel, <<>>)

\* TimestampConflictChecker.check
TimestampCheck(inputs, env) ==
  IF ~env.enabled
  THEN Returned(inputs, <<>>)
  ELSE IF inputs.type = "CONTINUE"
  THEN LET started == <<E_showChannelOutput,
                        E_showCommandWithTimestamp("channel_starting_message")>>
       IN IF env.username = Undefined
          THEN Returned(CancelMsg("conflict_detect_no_default_username"), started)
          ELSE LET t == TsTry(inputs, env)
               IN IF t.thrown
                  THEN TsCaught(started \o t.events, env)
                  ELSE [t EXCEPT !.events = started \o @]
  ELSE Returned(Cancel, <<>>)

\* EmptyPostChecker.check answering a cancelled input with a new { type: 'CANCEL' }
EmptyCheck_FreshCancel(inputs) ==
  IF inputs.type = "CONTINUE" THEN Returned(inputs, <<>>) ELSE Returned(Cancel, <<>>)

\* EmptyPostChecker.check
EmptyCheck(inputs) == Returned(inputs, <<>>)

\* number of calls of a collaborator among events
RECURSIVE CountCalls(_, _)
CountCalls(events, name) ==
  IF events = <<>> THEN 0
  ELSE (IF Head(events).call = name THEN 1 ELSE 0) + CountCalls(Tail(events), name)

Unlocks(events) == CountCalls(events, "DeployQueue.unlock")
Prompts(events) == CountCalls(events, "notificationService.showWarningModal")

\* DeployQueue.unlock, once per call among events
ApplyUnlocks(events) ==
  /\ unlockCalls' = unlockCalls + Unlocks(events)
  /\ locked' = (locked /\ Unlocks(events) = 0)

StringResponses == {Continue(d) : d \in Payloads} \cup CancelResponses

\* one of the conflict checkers is called by a commandlet
CheckerCalled(who, inputs, env) ==
  /\ ckWho = "none"
  /\ ckWho' = who
  /\ ckInputs' = inputs
  /\ ckEnv' = env
  /\ ckOut' = IF who = "Timestamp" THEN TimestampCheck(inputs, env)
              ELSE ConflictDetectionCheck(inputs, env)
  /\ ApplyUnlocks(ckOut'.events)
  /\ UNCHANGED <<ovars, chvars, mvars, gvars>>

\* EmptyPostChecker.check is called by a commandlet
EmptyCalled(inputs) ==
  /\ ckWho = "none"
  /\ ckWho' = "Empty"
  /\ ckInputs' = inputs
  /\ ckEnv' = NotRun
  /\ ckOut' = EmptyCheck(inputs)
  /\ ApplyUnlocks(ckOut'.events)
  /\ UNCHANGED <<ovars, chvars, mvars, gvars>>

----------------------------------------------------------------------------
\* CompositePostconditionChecker

MaxChain == 3

\* the checkers a composite can be built from; "Stub" is any other
\* PostconditionChecker, which may return anything or throw
Kinds == {"Empty", "Stub", "ConflictDetection", "Timestamp"}

\* what postchecker.check(inputs) can come to, by kind of checker
CheckerOutcomes(kind, inputs) ==
  IF kind = "Empty" THEN {EmptyCheck(inputs)}
  ELSE IF kind = "ConflictDetection" THEN {ConflictDetectionCheck(inputs, env) : env \in Envs}
  ELSE IF kind = "Timestamp" THEN {TimestampCheck(inputs, env) : env \in Envs}
  ELSE {Returned(r, <<>>) : r \in StringResponses} \cup {Threw(<<>>)}

Goto(pc, inputs, result) == [pc |-> pc, inputs |-> inputs, result |-> result]

\* CompositeEnter answering a cancelled input with a new { type: 'CANCEL' }
CompositeEnter_FreshCancel(inputs, n) ==
  IF inputs.type = "CONTINUE"
  THEN IF n > 0 THEN Goto("call", inputs, NotRun) ELSE Goto("done", inputs, inputs)
  ELSE Goto("done", inputs, Cancel)

\* check up to the first call of a checker (lines 44-46, 55)
CompositeEnter(inputs, n) ==
  IF inputs.type = "CONTINUE"
  THEN IF n > 0 THEN Goto("call", inputs, NotRun) ELSE Goto("done", inputs, inputs)
  ELSE Goto("done", inputs, inputs)

\* NextChecker iterating from the last checker to the first
NextChecker_Reversed(checkers, k) == checkers[Len(checkers) - k]

\* the checker the loop calls after k checkers have returned
NextChecker(checkers, k) == checkers[k + 1]

\* CompositeResume returning the checker's own Cancel
CompositeResume_ReturnsChildCancel(out, k, n) ==
  IF out.thrown
  THEN Goto("done", chInputs, Thrown)
  ELSE IF out.res.type # "CONTINUE"
  THEN Goto("done", out.res, out.res)
  ELSE IF k < n
  THEN Goto("call", out.res, NotRun)
  ELSE Goto("done", out.res, out.res)

\* CompositeResume without the early return on a cancel
CompositeResume_NoShortCircuit(out, k, n) ==
  IF out.thrown
  THEN Goto("done", chInputs, Thrown)
  ELSE IF k < n
  THEN Goto("call", out.res, NotRun)
  ELSE Goto("done", out.res, out.res)

\* the loop body after the k-th checker's promise has settled (lines 47-55)
CompositeResume(out, k, n) ==
  IF out.thrown
  THEN Goto("done", chInputs, Thrown)
  ELSE IF out.res.type # "CONTINUE"
  THEN Goto("done", out.res, Cancel)
  ELSE IF k < n
  THEN Goto("call", out.res, NotRun)
  ELSE Goto("done", out.res, out.res)

LogEntry(ev, idx, kind, val, prompts) ==
  [ev |-> ev, idx |-> idx, kind |-> kind, val |-> val, prompts |-> prompts]

CompositeCheck(inputs) ==
  /\ chpc = "idle"
  /\ LET g == CompositeEnter(inputs, Len(postcheckers))
     IN /\ chpc' = g.pc
        /\ chInputs' = g.inputs
        /\ chResult' = g.result
  /\ chArg' = inputs
  /\ UNCHANGED <<postcheckers, chk, chLog, ovars, lvars, ckvars, mvars, gvars>>

\* inputs = await postchecker.check(inputs): the call
CheckerInvoked ==
  /\ chpc = "call"
  /\ chpc' = "await"
  /\ chLog' = Append(chLog, LogEntry("call", chk + 1, NextChecker(postcheckers, chk), chInputs, 0))
  /\ UNCHANGED <<postcheckers, chArg, chInputs, chk, chResult, ovars, lvars, ckvars, mvars, gvars>>

\* inputs = await postchecker.check(inputs): the promise settles with out
CheckerSettled(out) ==
  /\ chpc = "await"
  /\ LET call == chLog[Len(chLog)]
         g == CompositeResume(out, chk + 1, Len(postcheckers))
     IN /\ out \in CheckerOutcomes(call.kind, call.val)
        /\ chLog' = Append(chLog, LogEntry("return", call.idx, call.kind, out.res, Prompts(out.events)))
        /\ chk' = chk + 1
        /\ chpc' = g.pc
        /\ chInputs' = g.inputs
        /\ chResult' = g.result
  /\ ApplyUnlocks(out.events)
  /\ UNCHANGED <<postcheckers, chArg, ovars, ckvars, mvars, gvars>>

MIdle ==
  /\ mFound = <<>>
  /\ mIndex = 0
  /\ mMessage = NotRun

GIdle ==
  /\ gEnv = NotRun
  /\ gWho = "none"
  /\ gpc = "idle"
  /\ gLocals = NotRun
  /\ gLog = <<>>
  /\ gResult = NotRun

OIdle ==
  /\ oInputs = NotRun
  /\ opc = "idle"
  /\ foundComponents = <<>>
  /\ i = 0
  /\ skipped = {}
  /\ promptLog = <<>>
  /\ toSkip = NoDecision
  /\ oResult = NotRun

LockHeld ==
  /\ locked = TRUE
  /\ unlockCalls = 0

CkIdle ==
  /\ ckWho = "none"
  /\ ckInputs = NotRun
  /\ ckEnv = NotRun
  /\ ckOut = NotRun

ChIdle ==
  /\ chArg = NotRun
  /\ chInputs = NotRun
  /\ chpc = "idle"
  /\ chk = 0
  /\ chLog = <<>>
  /\ chResult = NotRun

OInit ==
  /\ existing \in SUBSET Components
  /\ OIdle /\ LockHeld /\ CkIdle /\ ChIdle /\ MIdle /\ GIdle /\ postcheckers = <<>>

OStart == \E inputs \in {Continue(d) : d \in OneOrMany} \cup CancelResponses : OverwriteCheck(inputs)
OAnswer == \E choice \in {L_overwrite, L_skip, Dismissed}
                          \cup {L_overwrite_all(n) : n \in 1..MaxList}
                          \cup {L_skip_all(n) : n \in 1..MaxList} : PromptAnswered(choice)

ONext == OStart \/ OAnswer

SpecOverwrite == OInit /\ [][ONext]_vars

CkInit ==
  /\ existing = {}
  /\ OIdle /\ LockHeld /\ CkIdle /\ ChIdle /\ MIdle /\ GIdle /\ postcheckers = <<>>

CkTimestamp == \E inputs \in StringResponses, env \in Envs : CheckerCalled("Timestamp", inputs, env)
CkConflictDetection == \E inputs \in StringResponses, env \in Envs : CheckerCalled("ConflictDetection", inputs, env)

\* EmptyPostChecker takes any CheckResult: string or component payloads
CkEmpty ==
  \/ \E inputs \in StringResponses : EmptyCalled(inputs)
  \/ \E d \in OneOrMany : EmptyCalled(Continue(d))

CkNext == CkTimestamp \/ CkConflictDetection \/ CkEmpty

SpecChecker == CkInit /\ [][CkNext]_vars

ChInit ==
  /\ existing = {}
  /\ postcheckers \in SeqsUpTo(Kinds, MaxChain)
  /\ OIdle /\ LockHeld /\ CkIdle /\ ChIdle /\ MIdle /\ GIdle

ChStart == \E inputs \in StringResponses : CompositeCheck(inputs)
PendingOutcomes ==
  IF chpc = "await"
  THEN CheckerOutcomes(chLog[Len(chLog)].kind, chLog[Len(chLog)].val)
  ELSE {}
ChSettle == \E out \in PendingOutcomes : CheckerSettled(out)

ChNext == ChStart \/ CheckerInvoked \/ ChSettle

SpecChain == ChInit /\ [][ChNext]_vars

\* a commandlet runs one postcondition checker: the overwrite prompt, one of
\* the directly called checkers, or a composite
AnyInit == OInit \/ CkInit \/ ChInit

AnyOverwrite == ckWho = "none" /\ chpc = "idle" /\ postcheckers = <<>> /\ ONext
AnyChecker == opc = "idle" /\ chpc = "idle" /\ postcheckers = <<>> /\ existing = {} /\ CkNext
AnyChain == opc = "idle" /\ ckWho = "none" /\ existing = {} /\ ChNext

AnyNext == AnyOverwrite \/ AnyChecker \/ AnyChain

SpecAny == AnyInit /\ [][AnyNext]_vars

\* the lists buildDialogMessage is called with: distinct components, here in
\* ascending and in descending order of their names
FoundLists == {[j \in 1..n |-> j] : n \in 1..MaxFound}
              \cup {[j \in 1..n |-> n + 1 - j] : n \in 1..MaxFound}

MInit ==
  /\ existing = {}
  /\ mFound \in FoundLists
  /\ mIndex \in 0..(Len(mFound) - 1)
  /\ mMessage = NotRun
  /\ OIdle /\ LockHeld /\ CkIdle /\ ChIdle /\ GIdle /\ postcheckers = <<>>

MNext == MessageBuilt

SpecMessage == MInit /\ [][MNext]_vars

GtInit ==
  /\ existing = {}
  /\ gEnv \in GEnvs
  /\ gWho = "none"
  /\ gpc = "idle"
  /\ gLocals = NotRun
  /\ gLog = <<>>
  /\ gResult = NotRun
  /\ OIdle /\ LockHeld /\ CkIdle /\ ChIdle /\ MIdle /\ postcheckers = <<>>

GtStart == \E who \in {"Auth", "AccessToken"} : GatherCalled(who)
GtQuickPick == \E selection \in Range(getQuickPickItems) \cup {Undefined} : QuickPickAnswered(selection)
GtCustomUrl == \E loginUrl \in UrlAnswers : CustomUrlAnswered(loginUrl)
GtInstanceUrl == \E instanceUrl \in UrlAnswers : InstanceUrlAnswered(instanceUrl)
GtAlias == \E alias \in AliasAnswers : AliasAnswered(alias)
GtAccessToken == \E accessToken \in TokenAnswers : AccessTokenAnswered(accessToken)

GtNext == GtStart \/ GtQuickPick \/ GtCustomUrl \/ GtInstanceUrl \/ GtAlias \/ GtAccessToken

SpecGather == GtInit /\ [][GtNext]_vars

----------------------------------------------------------------------------
\* Properties

LastPrompt == promptLog[Len(promptLog)]
Prompted == opc = "done" /\ promptLog # <<>>
ReturnsAt(j) == chLog[j].ev = "return"

\* C1: in a composite called with a Continue input, once a checker returns
\* Cancel that return is the last invocation event (no later checker is
\* called, none of their prompts is shown) and the composite has returned a
\* Cancel.
C1_CancelShortCircuits ==
  \A j \in 1..Len(chLog) :
    (ReturnsAt(j) /\ chLog[j].val.type = "CANCEL")
      => /\ j = Len(chLog)
         /\ chArg.type = "CONTINUE"
         /\ chpc = "done"
         /\ chResult.type = "CANCEL"
         /\ \A m \in 1..Len(chLog) : chLog[m].idx <= chLog[j].idx

C1_Witness ==
  /\ chpc = "done"
  /\ chLog # <<>>
  /\ chLog[Len(chLog)].val.type = "CANCEL"
  /\ chLog[Len(chLog)].idx = 2
  /\ Len(postcheckers) = 3
  /\ chResult.type = "CANCEL"

\* C2: when TimestampConflictChecker.check is given a Continue input and
\* does not return Continue, the deploy lock has been released when it
\* returns.
C2_EarlyEndReleasesLock ==
  (ckWho = "Timestamp" /\ ckInputs.type = "CONTINUE" /\ ckOut.res.type # "CONTINUE")
    => ~locked

\* C3: in TimestampConflictChecker.check with detection enabled, a Continue
\* input and a username, when loadCache or createDiffs throws, unlock is
\* called exactly once, no modal is shown and the result is a Cancel without
\* message.
C3_ThrowUnlocksOnce ==
  (/\ ckWho = "Timestamp"
   /\ ckEnv.enabled
   /\ ckInputs.type = "CONTINUE"
   /\ ckEnv.username # Undefined
   /\ ckEnv.fail \in {"loadCache", "createDiffs"})
    => /\ Unlocks(ckOut.events) = 1
       /\ unlockCalls = 1
       /\ ~locked
       /\ Prompts(ckOut.events) = 0
       /\ ~ckOut.thrown
       /\ ckOut.res = Cancel
       /\ ckOut.res.msg = Undefined

C3_Witness ==
  /\ ckWho = "Timestamp"
  /\ ckEnv.enabled
  /\ ckInputs.type = "CONTINUE"
  /\ ckEnv.username # Undefined
  /\ ckEnv.fail = "createDiffs"
  /\ ckEnv.different > 0
  /\ unlockCalls = 1

\* C4 as claimed: when the skip set returned by promptOverwrite has as many
\* members as there are found components, check returns Cancel.
C4_SkipAllFoundCancels ==
  (Prompted /\ toSkip.defined /\ Cardinality(toSkip.set) = Len(foundComponents))
    => oResult = Cancel

\* C4 as amended: when the skip set returned by promptOverwrite has as many
\* members as the whole list of candidates (componentsToCheck), check
\* returns Cancel.
C4_SkipAllCandidatesCancels ==
  (Prompted /\ toSkip.defined /\ Cardinality(toSkip.set) = Len(oInputs.data.items))
    => oResult = Cancel

C4_Witness ==
  /\ Prompted
  /\ toSkip.defined
  /\ Cardinality(toSkip.set) = Len(oInputs.data.items)
  /\ Len(promptLog) = 3
  /\ \A j \in 1..3 : promptLog[j].choice = L_skip
  /\ oResult = Cancel

\* C5: when promptOverwrite ends on 'Skip remaining (K)' at index i, the
\* returned set is the skip set accumulated before i united with the items
\* from i to the end.
C5_SkipRemainingKeepsEarlierSkips ==
  (Prompted /\ LastPrompt.choice.text = "warning_prompt_skip_all")
    => /\ toSkip.defined
       /\ toSkip.set = skipped \cup {foundComponents[m] : m \in (LastPrompt.index + 1)..Len(foundComponents)}

\* C6: when check returns Continue after prompting, a list input comes back
\* as the original list, in order, without the members of the returned skip
\* set (so with every candidate that does not exist locally), and a single
\* artifact comes back unchanged.
C6_ContinuePayload ==
  (Prompted /\ oResult.type = "CONTINUE")
    => /\ toSkip.defined
       /\ oResult.data.isArray = oInputs.data.isArray
       /\ LET NotSkipped(c) == c \notin toSkip.set
          IN IF oInputs.data.isArray
             THEN /\ oResult.data.items = SelectSeq(oInputs.data.items, NotSkipped)
                  /\ \A c \in Range(oInputs.data.items) :
                       c \notin existing => c \in Range(oResult.data.items)
             ELSE oResult = oInputs

C6_Witness ==
  /\ Prompted
  /\ oResult.type = "CONTINUE"
  /\ oInputs.data.isArray
  /\ toSkip.set # {}
  /\ Len(oResult.data.items) = 2
  /\ \E c \in Range(oInputs.data.items) : c \notin existing

\* C7: a composite called with a Cancel returns that Cancel, message
\* included, and calls none of its checkers.
C7_CancelPassesThrough ==
  (chpc # "idle" /\ chArg.type = "CANCEL")
    => /\ chpc = "done"
       /\ chResult = chArg
       /\ chLog = <<>>
       /\ chk = 0

C7_Witness ==
  /\ chpc = "done"
  /\ chArg = CancelMsg("other_message")
  /\ chResult = chArg
  /\ Len(postcheckers) = 2

\* C8: a composite calls its checkers in constructor order, one at a time:
\* calls and returns alternate, the j-th call is of the j-th checker, its
\* argument is the composite's input (first call) or the previous checker's
\* output, and when all checkers continued the result is the last output.
C8_OrderedThreading ==
  /\ \A j \in 1..Len(chLog) :
       /\ chLog[j].ev = (IF j % 2 = 1 THEN "call" ELSE "return")
       /\ chLog[j].idx = (j + 1) \div 2
       /\ chLog[j].idx <= Len(postcheckers)
       /\ chLog[j].kind = postcheckers[chLog[j].idx]
       /\ (j = 1) => chLog[j].val = chArg
       /\ (j > 1 /\ j % 2 = 1) => (chLog[j].val = chLog[j - 1].val /\ chLog[j].val.type = "CONTINUE")
  /\ (chpc = "await") <=> (Len(chLog) % 2 = 1)
  /\ (chpc = "done" /\ chArg.type = "CONTINUE" /\ chResult.type = "CONTINUE")
       => /\ Len(chLog) = 2 * Len(postcheckers)
          /\ chResult = (IF chLog = <<>> THEN chArg ELSE chLog[Len(chLog)].val)
  /\ (chpc = "done" /\ Len(chLog) = 2 * Len(postcheckers) /\ chLog # <<>>
        /\ chLog[Len(chLog)].val.type = "CONTINUE")
       => chResult = chLog[Len(chLog)].val

C8_Witness ==
  /\ chpc = "done"
  /\ Len(postcheckers) = 3
  /\ Len(chLog) = 6
  /\ chResult.type = "CONTINUE"
  /\ chResult # chArg
  /\ chLog[2].val # chLog[4].val

\* C9: a dismissed modal is the last modal shown; promptOverwrite then
\* returns undefined, which is not the empty skip set, and check returns
\* Cancel; an empty skip set makes check return its input.
C9_DismissalCancels ==
  /\ NoDecision # Decision({})
  /\ \A j \in 1..Len(promptLog) :
       promptLog[j].choice = Dismissed
         => /\ j = Len(promptLog)
            /\ opc = "done"
            /\ toSkip = NoDecision
            /\ oResult = Cancel
  /\ (Prompted /\ toSkip = Decision({})) => oResult = oInputs

C9_Witness ==
  /\ Prompted
  /\ Len(promptLog) = 2
  /\ promptLog[1].choice = L_skip
  /\ promptLog[2].choice = Dismissed
  /\ Len(foundComponents) = 3
  /\ oResult = Cancel

\* C10: 'Skip remaining (K)' at index i is the last modal shown and makes
\* promptOverwrite return exactly the set of the items from i to the end.
C10_SkipRemainingSet ==
  \A j \in 1..Len(promptLog) :
    promptLog[j].choice.text = "warning_prompt_skip_all"
      => /\ j = Len(promptLog)
         /\ opc = "done"
         /\ promptLog[j].index = j - 1
         /\ promptLog[j].choice.count = <<Len(foundComponents) - promptLog[j].index>>
         /\ toSkip.defined
         /\ \A c \in Components :
              c \in toSkip.set
                <=> \E m \in (promptLog[j].index + 1)..Len(foundComponents) : foundComponents[m] = c

C10_Witness ==
  /\ Prompted
  /\ Len(promptLog) = 2
  /\ promptLog[1].choice = L_overwrite
  /\ promptLog[2].choice = L_skip_all(2)
  /\ Len(foundComponents) = 3
  /\ Cardinality(toSkip.set) = 2

\* the items answered with 'Skip' in the modals shown so far
AnsweredSkip == {foundComponents[promptLog[j].index + 1] :
                   j \in {m \in 1..Len(promptLog) : promptLog[m].choice = L_skip}}

\* C11: when promptOverwrite ends after the modal of the last index or on
\* 'Overwrite remaining (K)', it returns exactly the items answered with
\* 'Skip'; with no 'Skip' answer the set is empty and check returns its
\* input; 'Overwrite remaining (K)' is the last modal shown and its K is the
\* number of items from its index to the end.
C11_ReturnsAnsweredSkips ==
  /\ \A j \in 1..Len(promptLog) :
       promptLog[j].choice.text = "warning_prompt_overwrite_all"
         => /\ j = Len(promptLog)
            /\ opc = "done"
            /\ promptLog[j].choice.count = <<Len(foundComponents) - promptLog[j].index>>
  /\ (Prompted /\ LastPrompt.choice.text \in {"warning_prompt_overwrite",
                                              "warning_prompt_skip",
                                              "warning_prompt_overwrite_all"})
       => /\ toSkip = Decision(AnsweredSkip)
          /\ (LastPrompt.choice.text # "warning_prompt_overwrite_all"
                => LastPrompt.index = Len(foundComponents) - 1)
          /\ (AnsweredSkip = {} => oResult = oInputs)

C11_Witness ==
  /\ Prompted
  /\ Len(foundComponents) = 3
  /\ Len(promptLog) = 2
  /\ promptLog[1].choice = L_skip
  /\ promptLog[2].choice = L_overwrite_all(2)
  /\ toSkip = Decision({foundComponents[1]})

\* C20: EmptyPostChecker.check returns its argument, Continue or Cancel,
\* message and payload included, calls no collaborator and leaves the deploy
\* lock alone.
C20_EmptyReturnsInput ==
  (ckWho = "Empty")
    => /\ ~ckOut.thrown
       /\ ckOut.res = ckInputs
       /\ ckOut.events = <<>>
       /\ unlockCalls = 0
       /\ locked

C20_Witness ==
  /\ ckWho = "Empty"
  /\ ckInputs = CancelMsg("other_message")
  /\ ckOut.res = CancelMsg("other_message")

ConflictCheckers == {"ConflictDetection", "Timestamp"}

\* C12: whichever of checkForConflicts, loadCache and createDiffs fails (or
\* none), ConflictDetectionChecker.check and TimestampConflictChecker.check
\* do not throw: the caller receives a Continue or a Cancel.
C12_ChecksNeverThrow ==
  (ckWho \in ConflictCheckers
     /\ ckEnv.fail \in {"none", "checkForConflicts", "loadCache", "createDiffs"})
    => /\ ~ckOut.thrown
       /\ ckOut.res.type \in {"CONTINUE", "CANCEL"}

\* C13: with detection enabled, a Continue input and no workspace username,
\* either conflict checker returns a Cancel carrying the
\* conflict_detect_no_default_username message and calls neither
\* checkForConflicts, loadCache, createDiffs nor the modal.
C13_NoUsernameCancels ==
  (ckWho \in ConflictCheckers
     /\ ckEnv.enabled
     /\ ckInputs.type = "CONTINUE"
     /\ ckEnv.username = Undefined)
    => /\ ~ckOut.thrown
       /\ ckOut.res.type = "CANCEL"
       /\ ckOut.res.msg = "conflict_detect_no_default_username"
       /\ ckOut.res.msg # Undefined
       /\ CountCalls(ckOut.events, "conflictDetector.checkForConflicts") = 0
       /\ CountCalls(ckOut.events, "cacheService.loadCache") = 0
       /\ CountCalls(ckOut.events, "detector.createDiffs") = 0
       /\ Prompts(ckOut.events) = 0

C13_Witness ==
  /\ ckWho = "Timestamp"
  /\ ckEnv.enabled
  /\ ckInputs.type = "CONTINUE"
  /\ ckEnv.username = Undefined
  /\ ckEnv.different > 0
  /\ ckEnv.fail = "none"
  /\ ckOut.res.type = "CANCEL"

\* C14: with detection disabled, either conflict checker returns its
\* argument, Continue or Cancel, and calls no collaborator, shows no modal
\* and does not unlock.
C14_DisabledPassesThrough ==
  (ckWho \in ConflictCheckers /\ ~ckEnv.enabled)
    => /\ ~ckOut.thrown
       /\ ckOut.res = ckInputs
       /\ ckOut.events = <<>>
       /\ unlockCalls = 0
       /\ locked

C14_Witness ==
  /\ ckWho = "ConflictDetection"
  /\ ~ckEnv.enabled
  /\ ckEnv.username = Undefined
  /\ ckEnv.fail = "checkForConflicts"
  /\ ckInputs = CancelMsg("other_message")
  /\ ckOut.res = CancelMsg("other_message")

\* handleConflicts was called by the check recorded in ck*: detection is
\* enabled, the input continues, a username exists and the comparison or
\* snapshot collaborators did not throw
HandleConflictsCalled ==
  /\ ckWho \in ConflictCheckers
  /\ ckEnv.enabled
  /\ ckInputs.type = "CONTINUE"
  /\ ckEnv.username # Undefined
  /\ (ckWho = "ConflictDetection" => ckEnv.fail # "checkForConflicts")
  /\ (ckWho = "Timestamp" => ckEnv.fail \notin {"loadCache", "createDiffs"})

\* neither the modal nor the conflict view throws
Faultless == ckEnv.fail \notin {"showWarningModal", "visualizeDifferences", "unlock"}

IsModal(e) == e.call = "notificationService.showWarningModal"
IsVisualize(e) == e.call = "conflictView.visualizeDifferences"
ModalCalls == SelectSeq(ckOut.events, IsModal)
VisualizeCalls == SelectSeq(ckOut.events, IsVisualize)

\* C15: in handleConflicts of either checker with one or more differences,
\* one modal is shown, with the two choices Override and Show conflicts, and
\* the result is Continue with the original manifest or path exactly when
\* the answer is Override; Show conflicts and a dismissal give Cancel.
C15_OverrideOrCancel ==
  (HandleConflictsCalled /\ ckEnv.different > 0 /\ Faultless)
    => /\ Len(ModalCalls) = 1
       /\ Len(ModalCalls[1].args) = 2
       /\ Range(ModalCalls[1].args) = {Override, ShowConflicts}
       /\ ~ckOut.thrown
       /\ (ckEnv.choice = Override => ckOut.res = Continue(ckInputs.data))
       /\ (ckEnv.choice # Override => ckOut.res = Cancel)

C15_Witness ==
  /\ HandleConflictsCalled
  /\ ckWho = "ConflictDetection"
  /\ ckEnv.different > 0
  /\ ckEnv.fail = "none"
  /\ ckEnv.choice = Undefined
  /\ ckOut.res = Cancel

\* the manifest checker cancelled from its modal: Show conflicts or dismissal
CdShowOrDismiss ==
  /\ HandleConflictsCalled
  /\ ckWho = "ConflictDetection"
  /\ ckEnv.different > 0
  /\ Faultless
  /\ ckEnv.choice # Override

\* the last three collaborator calls of the check
LastThree == SubSeq(ckOut.events, Len(ckOut.events) - 2, Len(ckOut.events))

\* C16 as claimed: on Show conflicts and on dismissal alike, the manifest
\* checker writes the command hint, calls the conflict view with the diff
\* results and revealImmediately = true, and returns Cancel.
C16_ShowAndDismissReveal ==
  CdShowOrDismiss
    => /\ LastThree = <<E_appendLine("conflict_detect_command_hint"),
                        E_showChannelOutput,
                        E_visualizeDifferences(TRUE, TRUE)>>
       /\ ckOut.res = Cancel

\* C16 as amended: on Show conflicts and on dismissal the manifest checker
\* writes the command hint, calls the conflict view with the diff results,
\* and returns Cancel; revealImmediately is true on Show conflicts and false
\* on dismissal.
C16_RevealOnlyOnShow ==
  CdShowOrDismiss
    => /\ LastThree = <<E_appendLine("conflict_detect_command_hint"),
                        E_showChannelOutput,
                        E_visualizeDifferences(ckEnv.choice = ShowConflicts, TRUE)>>
       /\ Len(VisualizeCalls) = 1
       /\ ckOut.res = Cancel

C16_Witness ==
  /\ CdShowOrDismiss
  /\ ckEnv.choice = Undefined
  /\ ckEnv.fail = "none"
  /\ VisualizeCalls = <<E_visualizeDifferences(FALSE, TRUE)>>

\* C17: when the manifest checker's diff has no differences, it returns
\* Continue with the original manifest, shows no modal, and calls the
\* conflict view once, with revealImmediately = false.
C17_NoDifferencesContinue ==
  (HandleConflictsCalled /\ ckWho = "ConflictDetection" /\ ckEnv.different = 0 /\ Faultless)
    => /\ ckOut.res = Continue(ckInputs.data)
       /\ ~ckOut.thrown
       /\ Prompts(ckOut.events) = 0
       /\ VisualizeCalls = <<E_visualizeDifferences(FALSE, FALSE)>>
       /\ VisualizeCalls[1].args[1] = "false"

C17_Witness ==
  /\ HandleConflictsCalled
  /\ ckWho = "ConflictDetection"
  /\ ckEnv.different = 0
  /\ ckEnv.fail = "none"
  /\ ckEnv.choice = ShowConflicts
  /\ ckOut.res.type = "CONTINUE"

\* a collaborator of the timestamp checker threw inside its try block
TsFaulted(env) ==
  \/ env.fail \in {"loadCache", "createDiffs", "visualizeDifferences"}
  \/ (env.fail = "showWarningModal" /\ env.different > 0)

\* C18: the deploy lock is never acquired, and a step releases it (calls
\* unlock) only when it is a TimestampConflictChecker.check, called directly
\* or by a composite, that ends in Cancel (or by the exception of a rejected
\* unlock) after a caught exception or after the modal was not answered
\* with Override; the composite itself, the empty checker, the overwrite
\* prompt and the manifest checker never call unlock, nor does the timestamp
\* checker when it continues or passes its input on.
C18_OnlyTimestampCancelUnlocks ==
  [][/\ (locked' => locked)
     /\ (unlockCalls' # unlockCalls \/ locked' # locked)
          => \/ /\ ckWho = "none"
                /\ ckWho' = "Timestamp"
                /\ ckEnv'.enabled
                /\ ckInputs'.type = "CONTINUE"
                /\ ckEnv'.username # Undefined
                /\ (ckOut'.res = Cancel \/ (ckOut'.thrown /\ ckEnv'.fail = "unlock"))
                /\ (TsFaulted(ckEnv') \/ (ckEnv'.different > 0 /\ ckEnv'.choice # Override))
                /\ unlockCalls' > unlockCalls
                /\ ~locked'
             \/ /\ chpc = "await"
                /\ chLog'[Len(chLog')].kind = "Timestamp"
                /\ chLog'[Len(chLog')].val \in {Cancel, Thrown}
                /\ chResult' = chLog'[Len(chLog')].val
                /\ unlockCalls' > unlockCalls
                /\ ~locked']_vars

C18_Witness ==
  /\ ckWho = "Timestamp"
  /\ ckEnv.fail = "none"
  /\ ckEnv.different > 0
  /\ ckEnv.choice = ShowConflicts
  /\ ckOut.res = Cancel
  /\ unlockCalls = 1
  /\ ~locked

ExistsLocally(c) == c \in existing

\* C19: OverwriteComponentPrompt.check with a Continue input: when no
\* candidate exists locally it returns its input without showing a modal;
\* otherwise promptOverwrite runs over the existing candidates, in input
\* order, and every modal is about an existing candidate.
C19_PromptsExistingOnly ==
  (opc # "idle" /\ oInputs.type = "CONTINUE")
    => LET expected == SelectSeq(oInputs.data.items, ExistsLocally)
       IN /\ (expected = <<>>
                => /\ opc = "done"
                   /\ promptLog = <<>>
                   /\ oResult = oInputs)
          /\ (expected # <<>>
                => /\ foundComponents = expected
                   /\ (opc = "prompt" \/ promptLog # <<>>)
                   /\ \A j \in 1..Len(promptLog) :
                        /\ promptLog[j].index = j - 1
                        /\ promptLog[j].index < Len(expected)
                        /\ expected[promptLog[j].index + 1] \in existing)

C19_Witness ==
  /\ Prompted
  /\ Len(oInputs.data.items) = 3
  /\ oInputs.data.items[2] \notin existing
  /\ Len(foundComponents) = 2
  /\ Len(promptLog) = 2
  /\ foundComponents = <<oInputs.data.items[1], oInputs.data.items[3]>>


----------------------------------------------------------------------------
\* the skip set promptOverwrite held when it showed the j-th logged modal
SkippedBefore(j) == {foundComponents[promptLog[m].index + 1] :
                       m \in {n \in 1..(j - 1) : promptLog[n].choice = L_skip}}

\* C21 as stated: 'Skip' is offered at every index of every batch, and a
\* batch of size 1 offers exactly Overwrite and Skip.
C21_SkipAlwaysOffered ==
  \A j \in 1..Len(promptLog) :
    /\ L_skip \in Range(promptLog[j].options)
    /\ (Len(foundComponents) = 1 => promptLog[j].options = <<L_overwrite, L_skip>>)

\* C21: in a batch of two or more found items 'Skip' is offered at every
\* index, whatever the skip set is (also when every earlier item was
\* skipped); in a batch of size 1 the only choice offered is Overwrite.
C21_SkipOfferedExceptSingle ==
  \A j \in 1..Len(promptLog) :
    /\ (Len(foundComponents) >= 2 => L_skip \in Range(promptLog[j].options))
    /\ (Len(foundComponents) = 1 => promptLog[j].options = <<L_overwrite>>)

C21_Witness ==
  /\ Prompted
  /\ Len(foundComponents) = 2
  /\ Len(promptLog) = 2
  /\ Cardinality(SkippedBefore(2)) = 1
  /\ promptLog[2].options = <<L_overwrite, L_skip>>
  /\ promptLog[2].choice = L_skip

----------------------------------------------------------------------------
RemainingTexts == {"warning_prompt_overwrite_all", "warning_prompt_skip_all"}
\* the 'remaining' choices among the options of a modal, in the order offered
IsRemaining(o) == o.text \in RemainingTexts
RemainingOffered(options) == SelectSeq(options, IsRemaining)

\* C22: at index i of N found items 'Overwrite remaining (K)' and 'Skip
\* remaining (K)' are offered exactly when i < N - 1, together and with
\* K = N - i; an answer with either offered label is matched by
\* promptOverwrite at that index (it returns a set, never the undefined of
\* the default case).
C22_RemainingChoices ==
  \A j \in 1..Len(promptLog) :
    LET p == promptLog[j]
        N == Len(foundComponents)
        K == N - p.index
    IN /\ RemainingOffered(p.options)
            = (IF p.index < N - 1 THEN <<L_overwrite_all(K), L_skip_all(K)>> ELSE <<>>)
       /\ IsRemaining(p.choice)
            => /\ p.choice.count = <<K>>
               /\ j = Len(promptLog)
               /\ opc = "done"
               /\ toSkip.defined

C22_Witness ==
  /\ Prompted
  /\ Len(foundComponents) = 3
  /\ Len(promptLog) = 1
  /\ promptLog[1].options = <<L_overwrite, L_skip, L_overwrite_all(3), L_skip_all(3)>>
  /\ promptLog[1].choice = L_skip_all(3)
  /\ toSkip = Decision(Range(foundComponents))

----------------------------------------------------------------------------
\* C23: the message built at index i of N found items lists the following
\* items in order; when N - i - 1 > 10 it lists exactly the items
\* i+1..i+10 and then one summary line with K = N - i - 11, and when
\* N - i - 1 <= 10 it lists all the N - i - 1 following items and no summary.
C23_MessageListsFollowing ==
  mMessage # NotRun
    => LET N == Len(mFound)
           following == N - mIndex - 1
           body == mMessage.body
       IN IF following > 10
          THEN /\ Len(body) = 11
               /\ \A k \in 1..10 : body[k] = EntryLine(mFound[mIndex + 1 + k])
               /\ body[11] = OtherNotShown(N - mIndex - 11)
          ELSE /\ Len(body) = following
               /\ \A k \in 1..following : body[k] = EntryLine(mFound[mIndex + 1 + k])

C23_Witness ==
  /\ mMessage # NotRun
  /\ Len(mFound) = 13
  /\ mFound[1] = 13
  /\ mIndex = 0
  /\ Len(mMessage.body) = 11
  /\ mMessage.body[10] = EntryLine(3)
  /\ mMessage.body[11] = OtherNotShown(2)

----------------------------------------------------------------------------
Gathered == gpc = "done"
IsAliasPrompt(e) == e.prompt = "parameter_gatherer_enter_alias_name"
\* the answers given to the alias prompt so far
AliasAnswersGiven == SelectSeq(gLog, IsAliasPrompt)

\* C24: in both gatherers, an alias prompt submitted with the empty string
\* yields a Continue result whose alias is 'vscodeOrg'.
C24_EmptyAliasDefaults ==
  (/\ Gathered
   /\ gResult.type = "CONTINUE"
   /\ AliasAnswersGiven # <<>>
   /\ AliasAnswersGiven[1].answer = "")
    => gResult.data.alias = "vscodeOrg"

----------------------------------------------------------------------------
AccessTokenPrompts == <<"parameter_gatherer_enter_instance_url",
                        "parameter_gatherer_enter_alias_name",
                        "Enter access token">>

----------------------------------------------------------------------------
\* a checker of the composite has returned a Cancel
ChildCancelled == \E j \in 1..Len(chLog) : ReturnsAt(j) /\ chLog[j].val.type = "CANCEL"

\* C25: when a checker of the composite returns Cancel, the composite's
\* result is a Cancel with no message, whatever message the checker's Cancel
\* carried; the composite's result carries a message only when its own
\* input was a Cancel carrying it.
C25_ChildMessageDropped ==
  /\ ChildCancelled => chpc = "done" /\ chResult = Cancel
  /\ (chpc = "done" /\ chResult.type = "CANCEL" /\ chResult.msg # Undefined)
       => chArg.type = "CANCEL" /\ chResult = chArg /\ chLog = <<>>

C25_Witness ==
  /\ chpc = "done"
  /\ Len(chLog) = 4
  /\ chLog[4].kind = "ConflictDetection"
  /\ chLog[4].val = CancelMsg("conflict_detect_no_default_username")
  /\ chResult = Cancel

----------------------------------------------------------------------------
\* C26: one invocation of TimestampConflictChecker.check calls unlock() at
\* most once, whatever its collaborators answer and whichever of them throws.
C26_UnlockAtMostOnce ==
  ckWho = "Timestamp" => Unlocks(ckOut.events) <= 1 /\ unlockCalls <= 1
====
